---- MODULE Spec2Model ----
(***************************************************************************)
(* Trace generators and AIR constraint evaluators of the ZK IR prover      *)
(* chips (CPU, memory, Poseidon2, SHA256), over the Baby Bear field.       *)
(*                                                                         *)
(* An ExecutionTrace starts empty (ExecutionTrace::new); steps, memory     *)
(* accesses and syscall records are appended to its public vectors; a chip *)
(* generator then turns the trace into a witness matrix.  The constraint   *)
(* evaluators (Air::eval) are polynomial identities over a row and its     *)
(* successor; they are operators that yield the values the builder asserts *)
(* to be zero.                                                             *)
(*                                                                         *)
(* u32 values are pairs <<hi, lo>> of 16-bit limbs, so that 32-bit         *)
(* wrapping arithmetic and the conversion into the field keep the width of *)
(* the code.  Field elements are the canonical representatives 0..p-1.     *)
(***************************************************************************)
EXTENDS Integers, Sequences, FiniteSets, TLC

VARIABLES
    steps,        \* ExecutionTrace.steps
    memory_log,   \* ExecutionTrace.memory_log
    syscalls,     \* ExecutionTrace.syscalls
    chip,         \* which generator has run on the trace ("none" before)
    sorted,       \* MemoryChip::generate_trace's local `sorted`
    matrix,       \* the rows of the RowMajorMatrix the generator returned
    candidate,    \* rows of a matrix of the prover's choosing, handed to eval
    verdict       \* whether eval's constraints hold on `candidate`

vars == <<steps, memory_log, syscalls, chip, sorted, matrix, candidate, verdict>>

----------------------------------------------------------------------------
(* Bounds of the model *)

\* lengths of trace.steps, trace.memory_log and trace.syscalls
MaxSteps == 3
MaxAccesses == 3
MaxSyscalls == 2
\* number of rows of a matrix handed to the memory evaluator
MaxCandidateRows == 2
\* number of opcode flags of a row handed to the CPU evaluator that are not 0
MaxNonZeroFlags == 3

----------------------------------------------------------------------------
(* Program constants *)

BABY_BEAR_PRIME == 2013265921
NUM_REGISTERS == 32
CPU_NUM_COLUMNS == 32
MEMORY_NUM_COLUMNS == 7
POSEIDON2_WIDTH == 16
POSEIDON2_FULL_ROUNDS == 8
POSEIDON2_PARTIAL_ROUNDS == 14
SHA256_ROUNDS == 64
SHA256_NUM_COLUMNS == 20

OP_ALU == 51
OP_ALU_IMM == 19
OP_LOAD == 3
OP_JALR == 103
OP_STORE == 35
OP_BRANCH == 99
OP_LUI == 55
OP_AUIPC == 23
OP_JAL == 111
OP_SYSTEM == 115
OP_ZK_CUSTOM == 11
OP_ZK_IO == 43
OP_HALT == 127

SYSCALL_POSEIDON2 == 1
SYSCALL_KECCAK256 == 2
SYSCALL_SHA256 == 3

----------------------------------------------------------------------------
(* 32-bit words as two 16-bit limbs *)

LimbBase == 65536

\* the u32 with value n, for 0 <= n < 2^31
U32(n) == <<n \div LimbBase, n % LimbBase>>

\* u32::wrapping_add
WrappingAdd(a, b) ==
    LET lo == a[2] + b[2]
        hi == a[1] + b[1] + (lo \div LimbBase)
    IN  <<hi % LimbBase, lo % LimbBase>>

\* `x as u32` for x: i32 (two's complement)
I32AsU32(x) ==
    IF x >= 0 THEN U32(x)
    ELSE LET m == (-x) - 1
         IN  <<(LimbBase - 1) - (m \div LimbBase), (LimbBase - 1) - (m % LimbBase)>>

\* Ord for u32: -1, 0, 1 for Less, Equal, Greater
CmpU32(a, b) ==
    IF a[1] < b[1] THEN -1
    ELSE IF a[1] > b[1] THEN 1
    ELSE IF a[2] < b[2] THEN -1
    ELSE IF a[2] > b[2] THEN 1
    ELSE 0

\* Ord for u64 (cycles stay far below 2^31 here)
CmpU64(a, b) == IF a < b THEN -1 ELSE IF a > b THEN 1 ELSE 0

----------------------------------------------------------------------------
(* The field F = Baby Bear, elements 0..p-1 *)

FAdd(a, b) ==
    IF a >= BABY_BEAR_PRIME - b THEN a - (BABY_BEAR_PRIME - b) ELSE a + b

FNeg(a) == IF a = 0 THEN 0 ELSE BABY_BEAR_PRIME - a

FSub(a, b) == FAdd(a, FNeg(b))

\* x * 2^n mod p by repeated doubling
Shl1(x) == FAdd(x, x)
Shl2(x) == Shl1(Shl1(x))
Shl4(x) == Shl2(Shl2(x))
Shl8(x) == Shl4(Shl4(x))
Shl11(x) == Shl8(Shl2(Shl1(x)))
Shl16(x) == Shl8(Shl8(x))

\* a * d mod p for a limb d < 2^11: a = a1 * 2^16 + a0, and both a1 * d and
\* a0 * d fit a machine integer
FMulLimb(a, d) ==
    IF d = 0 THEN 0
    ELSE FAdd(Shl16(((a \div 65536) * d) % BABY_BEAR_PRIME),
              ((a % 65536) * d) % BABY_BEAR_PRIME)

\* a * b mod p; products that fit a machine integer are taken directly,
\* larger ones limb by limb of b = b2 * 2^22 + b1 * 2^11 + b0
FMul(a, b) ==
    IF a = 0 \/ b = 0 THEN 0
    ELSE IF a < 46341 /\ b < 46341 THEN (a * b) % BABY_BEAR_PRIME
    ELSE FAdd(Shl11(FAdd(Shl11(FMulLimb(a, b \div 4194304)),
                         FMulLimb(a, (b \div 2048) % 2048))),
              FMulLimb(a, b % 2048))

\* F::from_canonical_u32: the field element of the word.  A word >= p is
\* reduced modulo p, as an optimised build does; a build with debug
\* assertions stops at such a word instead of producing a matrix.
FromCanonicalU32(w) ==
    FAdd(FMul(w[1] % BABY_BEAR_PRIME, LimbBase), w[2])

\* F::from_canonical_u64
FromCanonicalU64(n) == n % BABY_BEAR_PRIME

\* F::from_canonical_u32(x as u32) for x: u8
FromCanonicalU8(x) == FromCanonicalU32(U32(x))

----------------------------------------------------------------------------
(* usize helpers *)

RECURSIVE Pow2AtLeast(_, _)
Pow2AtLeast(n, p) == IF p >= n THEN p ELSE Pow2AtLeast(n, 2 * p)

\* usize::next_power_of_two: the smallest power of two >= n (1 for n = 0)
NextPowerOfTwo(n) == Pow2AtLeast(n, 1)

Max(a, b) == IF a >= b THEN a ELSE b

\* TraceLen without the floor of two rows
TraceLenNoFloor(n) == NextPowerOfTwo(n)

\* num.next_power_of_two().max(2)
TraceLen(n) == Max(NextPowerOfTwo(n), 2)

----------------------------------------------------------------------------
(* CPU chip: column schema *)

CpuColumnOrder ==
    << "pc", "next_pc", "cycle", "is_halted",
       "opcode", "rd", "rs1", "rs2", "imm", "funct",
       "rs1_val", "rs2_val", "rd_val",
       "is_alu", "is_alu_imm", "is_branch", "is_jump", "is_load", "is_store",
       "is_lui_auipc", "is_system", "is_zk_custom", "is_zk_io", "is_halt", "is_nop",
       "alu_op", "alu_result", "branch_taken", "comparison_result",
       "mem_addr", "mem_val", "mem_is_write" >>

CpuColumnNames == {CpuColumnOrder[i] : i \in 1..Len(CpuColumnOrder)}

\* CpuColumns::opcode_flags
OpcodeFlagNames ==
    << "is_alu", "is_alu_imm", "is_branch", "is_jump", "is_load", "is_store",
       "is_lui_auipc", "is_system", "is_zk_custom", "is_zk_io", "is_halt", "is_nop" >>

\* one row of vec![F::ZERO; trace_len * NUM_COLUMNS], viewed as CpuColumns
CpuZeroRow == [c \in CpuColumnNames |-> 0]

----------------------------------------------------------------------------
(* CPU chip: trace generation *)

ResetFlags(cols) ==
    [cols EXCEPT
        !.is_alu = 0, !.is_alu_imm = 0, !.is_branch = 0, !.is_jump = 0,
        !.is_load = 0, !.is_store = 0, !.is_lui_auipc = 0, !.is_system = 0,
        !.is_zk_custom = 0, !.is_zk_io = 0, !.is_halt = 0, !.is_nop = 0]

\* SetOpcodeFlag with the OP_JALR and OP_AUIPC alternatives left out of the match
SetOpcodeFlagSingleAlternative(cols, opcode) ==
    IF opcode = OP_ALU THEN [cols EXCEPT !.is_alu = 1]
    ELSE IF opcode = OP_ALU_IMM THEN [cols EXCEPT !.is_alu_imm = 1]
    ELSE IF opcode = OP_BRANCH THEN [cols EXCEPT !.is_branch = 1]
    ELSE IF opcode = OP_JAL THEN [cols EXCEPT !.is_jump = 1]
    ELSE IF opcode = OP_LOAD THEN [cols EXCEPT !.is_load = 1]
    ELSE IF opcode = OP_STORE THEN [cols EXCEPT !.is_store = 1]
    ELSE IF opcode = OP_LUI THEN [cols EXCEPT !.is_lui_auipc = 1]
    ELSE IF opcode = OP_SYSTEM THEN [cols EXCEPT !.is_system = 1]
    ELSE IF opcode = OP_ZK_CUSTOM THEN [cols EXCEPT !.is_zk_custom = 1]
    ELSE IF opcode = OP_ZK_IO THEN [cols EXCEPT !.is_zk_io = 1]
    ELSE IF opcode = OP_HALT THEN [cols EXCEPT !.is_halt = 1, !.is_halted = 1]
    ELSE [cols EXCEPT !.is_nop = 1]

\* the match on step.opcode of populate_row_from_step
SetOpcodeFlag(cols, opcode) ==
    IF opcode = OP_ALU THEN [cols EXCEPT !.is_alu = 1]
    ELSE IF opcode = OP_ALU_IMM THEN [cols EXCEPT !.is_alu_imm = 1]
    ELSE IF opcode = OP_BRANCH THEN [cols EXCEPT !.is_branch = 1]
    ELSE IF opcode = OP_JAL \/ opcode = OP_JALR THEN [cols EXCEPT !.is_jump = 1]
    ELSE IF opcode = OP_LOAD THEN [cols EXCEPT !.is_load = 1]
    ELSE IF opcode = OP_STORE THEN [cols EXCEPT !.is_store = 1]
    ELSE IF opcode = OP_LUI \/ opcode = OP_AUIPC THEN [cols EXCEPT !.is_lui_auipc = 1]
    ELSE IF opcode = OP_SYSTEM THEN [cols EXCEPT !.is_system = 1]
    ELSE IF opcode = OP_ZK_CUSTOM THEN [cols EXCEPT !.is_zk_custom = 1]
    ELSE IF opcode = OP_ZK_IO THEN [cols EXCEPT !.is_zk_io = 1]
    ELSE IF opcode = OP_HALT THEN [cols EXCEPT !.is_halt = 1, !.is_halted = 1]
    ELSE [cols EXCEPT !.is_nop = 1]

\* PopulateRowFromStep with `is_last` alone as the condition of the final
\* override (the `|| step.opcode == OP_HALT` left out)
PopulateRowFromStepLastOnly(row, step, is_last) ==
    LET decoded ==
            [row EXCEPT
                !.pc = FromCanonicalU32(step.pc),
                !.cycle = FromCanonicalU64(step.cycle),
                !.opcode = FromCanonicalU8(step.opcode),
                !.rd = FromCanonicalU8(step.rd),
                !.rs1 = FromCanonicalU8(step.rs1),
                !.rs2 = FromCanonicalU8(step.rs2),
                !.imm = FromCanonicalU32(I32AsU32(step.imm)),
                !.funct = FromCanonicalU8(step.funct),
                !.rs1_val = FromCanonicalU32(step.registers[step.rs1]),
                !.rs2_val = FromCanonicalU32(step.registers[step.rs2]),
                !.rd_val = FromCanonicalU32(step.registers[step.rd])]
        flagged == SetOpcodeFlag(ResetFlags(decoded), step.opcode)
        computed ==
            [flagged EXCEPT
                !.next_pc = FromCanonicalU32(WrappingAdd(step.pc, U32(4))),
                !.alu_op = 0,
                !.alu_result = flagged.rd_val]
    IN  IF is_last
        THEN [computed EXCEPT !.is_halted = 1, !.next_pc = computed.pc]
        ELSE computed

PopulateRowFromStep(row, step, is_last) ==
    LET decoded ==
            [row EXCEPT
                !.pc = FromCanonicalU32(step.pc),
                !.cycle = FromCanonicalU64(step.cycle),
                !.opcode = FromCanonicalU8(step.opcode),
                !.rd = FromCanonicalU8(step.rd),
                !.rs1 = FromCanonicalU8(step.rs1),
                !.rs2 = FromCanonicalU8(step.rs2),
                !.imm = FromCanonicalU32(I32AsU32(step.imm)),
                !.funct = FromCanonicalU8(step.funct),
                !.rs1_val = FromCanonicalU32(step.registers[step.rs1]),
                !.rs2_val = FromCanonicalU32(step.registers[step.rs2]),
                !.rd_val = FromCanonicalU32(step.registers[step.rd])]
        flagged == SetOpcodeFlag(ResetFlags(decoded), step.opcode)
        computed ==
            [flagged EXCEPT
                !.next_pc = FromCanonicalU32(WrappingAdd(step.pc, U32(4))),
                !.alu_op = 0,
                !.alu_result = flagged.rd_val]
    IN  IF is_last \/ step.opcode = OP_HALT
        THEN [computed EXCEPT !.is_halted = 1, !.next_pc = computed.pc]
        ELSE computed

\* PopulateNopRow without the write of the cycle cell
PopulateNopRowNoCycle(row, cycle) ==
    [ResetFlags(row) EXCEPT !.is_nop = 1]

\* `cycle` is the index of the padding row in the matrix (0-based)
PopulateNopRow(row, cycle) ==
    LET counted == [row EXCEPT !.cycle = FromCanonicalU64(cycle)]
    IN  [ResetFlags(counted) EXCEPT !.is_nop = 1]

\* the rows of the matrix, row i of the code at index i + 1
GenerateCpuTraceRows(trace_steps) ==
    LET num_steps == Len(trace_steps)
        trace_len == TraceLen(num_steps)
    IN  [r \in 1..trace_len |->
            IF r <= num_steps
            THEN PopulateRowFromStep(CpuZeroRow, trace_steps[r], (r - 1) = num_steps - 1)
            ELSE PopulateNopRow(CpuZeroRow, r - 1)]

----------------------------------------------------------------------------
(* CPU chip: AIR constraints (CpuChip::eval) *)

\* builder.when(c) scopes an assertion: the asserted value is multiplied by c
When(c, x) == FMul(c, x)

\* assert_eq(a, b), assert_one(x): the value asserted to be zero
AssertEq(a, b) == FSub(a, b)
AssertOne(x) == FSub(x, 1)

\* AssertBool with a third root: val * (1 - val) * (val + 1)
AssertBoolOrMinusOne(val) == FMul(FMul(val, FSub(1, val)), FAdd(val, 1))

\* CpuChip::assert_bool: val * (1 - val)
AssertBool(val) == FMul(val, FSub(1, val))

RECURSIVE FSum(_)
FSum(s) == IF s = <<>> THEN 0 ELSE FAdd(Head(s), FSum(Tail(s)))

\* the compound expressions of CpuChip::eval that scope assertions
FlagSum(local) ==
    FSum([k \in 1..Len(OpcodeFlagNames) |-> local[OpcodeFlagNames[k]]])
IsSequential(local) ==
    FSum(<<local.is_alu, local.is_alu_imm, local.is_load, local.is_store,
           local.is_lui_auipc, local.is_zk_custom, local.is_zk_io>>)
NotHaltedOrNop(local) == FSub(FSub(1, local.is_halt), local.is_nop)

\* the one-hot part of CpuChip::eval: the flag sum and the twelve booleanity
\* assertions
CpuFlagConstraints(local) ==
    << AssertOne(FlagSum(local)),
       AssertBool(local.is_alu),
       AssertBool(local.is_alu_imm),
       AssertBool(local.is_branch),
       AssertBool(local.is_jump),
       AssertBool(local.is_load),
       AssertBool(local.is_store),
       AssertBool(local.is_lui_auipc),
       AssertBool(local.is_system),
       AssertBool(local.is_zk_custom),
       AssertBool(local.is_zk_io),
       AssertBool(local.is_halt),
       AssertBool(local.is_nop) >>

\* The values CpuChip::eval asserts to be zero on one row; `next` is the row
\* after `local` (the first row after the last), is_transition is 1 on every
\* row but the last.
CpuConstraints(local, next, is_transition) ==
    LET pc_plus_4 == FAdd(local.pc, 4)
        pc_plus_imm == FAdd(local.pc, local.imm)
        is_sequential == IsSequential(local)
        branch_target ==
            FAdd(FMul(local.branch_taken, pc_plus_imm),
                 FMul(FSub(1, local.branch_taken), pc_plus_4))
        not_halted_or_nop == NotHaltedOrNop(local)
    IN  CpuFlagConstraints(local) \o
        << AssertBool(local.is_halted),
           AssertBool(local.branch_taken),
           AssertBool(local.mem_is_write),
           When(local.is_alu, AssertEq(local.rd_val, local.alu_result)),
           When(local.is_alu_imm, AssertEq(local.rd_val, local.alu_result)),
           When(is_sequential, AssertEq(local.next_pc, pc_plus_4)),
           When(local.is_branch, AssertEq(local.next_pc, branch_target)),
           When(local.is_jump, AssertEq(local.rd_val, pc_plus_4)),
           When(local.is_halt, AssertEq(local.next_pc, local.pc)),
           When(local.is_halted, AssertOne(next.is_halted)),
           When(is_transition, When(not_halted_or_nop, AssertEq(next.pc, local.next_pc))),
           When(is_transition,
                When(FSub(1, local.is_nop), AssertEq(next.cycle, FAdd(local.cycle, 1)))),
           When(local.is_load, local.mem_is_write),
           When(local.is_store, AssertOne(local.mem_is_write)) >>

\* every asserted value vanishes on the row pair
AllZero(values) == \A k \in 1..Len(values) : values[k] = 0

\* row after r, cyclically, as the builder's row_slice(1) yields it
NextRowIndex(rows, r) == (r % Len(rows)) + 1

IsTransition(rows, r) == IF r < Len(rows) THEN 1 ELSE 0

CpuEvalHolds(rows) ==
    \A r \in 1..Len(rows) :
        AllZero(CpuConstraints(rows[r], rows[NextRowIndex(rows, r)], IsTransition(rows, r)))

----------------------------------------------------------------------------
(* Memory chip *)

MemoryColumnOrder ==
    << "address", "cycle", "value", "is_write",
       "same_addr_as_next", "addr_diff_inv", "cycle_diff_inv" >>

MemoryColumnNames == {MemoryColumnOrder[i] : i \in 1..Len(MemoryColumnOrder)}

MemoryZeroRow == [c \in MemoryColumnNames |-> 0]

\* CompareAccess without the .then(...) on the cycle
CompareAccessAddressOnly(a, b) == CmpU32(a.address, b.address)

\* a.address.cmp(&b.address).then(a.cycle.cmp(&b.cycle))
CompareAccess(a, b) ==
    LET by_address == CmpU32(a.address, b.address)
    IN  IF by_address # 0 THEN by_address ELSE CmpU64(a.cycle, b.cycle)

\* x placed behind every element of the sorted sequence that is not greater
InsertStable(acc, x) ==
    LET before == {k \in 1..Len(acc) : CompareAccess(acc[k], x) <= 0}
        n == Cardinality(before)
    IN  SubSeq(acc, 1, n) \o <<x>> \o SubSeq(acc, n + 1, Len(acc))

RECURSIVE SortFrom(_, _)
SortFrom(acc, rest) ==
    IF rest = <<>> THEN acc ELSE SortFrom(InsertStable(acc, Head(rest)), Tail(rest))

\* ExecutionTrace::sorted_memory_log: a stable sort of a clone of memory_log
SortedMemoryLog(log) == SortFrom(<<>>, log)

\* PopulateMemoryRow with the value and is_write cells exchanged
PopulateMemoryRowSwapped(row, sorted_log, r) ==
    LET access == sorted_log[r]
        filled ==
            [row EXCEPT
                !.address = FromCanonicalU32(access.address),
                !.cycle = FromCanonicalU64(access.cycle),
                !.is_write = FromCanonicalU32(access.value),
                !.value = IF access.is_write THEN 1 ELSE 0]
    IN  IF r + 1 <= Len(sorted_log)
        THEN [filled EXCEPT
                !.same_addr_as_next =
                    IF sorted_log[r + 1].address = access.address THEN 1 ELSE 0]
        ELSE filled

\* PopulateMemoryRow with same_addr_as_next taken from the previous record
\* instead of the next one
PopulateMemoryRowLookBack(row, sorted_log, r) ==
    LET access == sorted_log[r]
        filled ==
            [row EXCEPT
                !.address = FromCanonicalU32(access.address),
                !.cycle = FromCanonicalU64(access.cycle),
                !.value = FromCanonicalU32(access.value),
                !.is_write = IF access.is_write THEN 1 ELSE 0]
    IN  IF r - 1 >= 1
        THEN [filled EXCEPT
                !.same_addr_as_next =
                    IF sorted_log[r - 1].address = access.address THEN 1 ELSE 0]
        ELSE filled

\* the body of the loop of MemoryChip::generate_trace for row i = r - 1
PopulateMemoryRow(row, sorted_log, r) ==
    LET access == sorted_log[r]
        filled ==
            [row EXCEPT
                !.address = FromCanonicalU32(access.address),
                !.cycle = FromCanonicalU64(access.cycle),
                !.value = FromCanonicalU32(access.value),
                !.is_write = IF access.is_write THEN 1 ELSE 0]
    IN  IF r + 1 <= Len(sorted_log)
        THEN [filled EXCEPT
                !.same_addr_as_next =
                    IF sorted_log[r + 1].address = access.address THEN 1 ELSE 0]
        ELSE filled

GenerateMemoryTraceRows(sorted_log) ==
    LET num_accesses == Len(sorted_log)
        trace_len == TraceLen(num_accesses)
    IN  [r \in 1..trace_len |->
            IF r <= num_accesses
            THEN PopulateMemoryRow(MemoryZeroRow, sorted_log, r)
            ELSE MemoryZeroRow]

\* The values MemoryChip::eval asserts to be zero on one row.
MemoryConstraints(local, next, is_transition) ==
    LET next_is_read == FSub(1, next.is_write)
    IN  << FMul(local.is_write, FSub(1, local.is_write)),
           FMul(local.same_addr_as_next, FSub(1, local.same_addr_as_next)),
           When(is_transition,
                When(local.same_addr_as_next, AssertEq(next.address, local.address))),
           When(is_transition,
                When(local.same_addr_as_next,
                     FSub(FMul(FSub(FSub(next.cycle, local.cycle), 1), local.cycle_diff_inv),
                          1))),
           When(is_transition,
                When(local.same_addr_as_next,
                     When(next_is_read, AssertEq(next.value, local.value)))) >>

MemoryEvalHolds(rows) ==
    \A r \in 1..Len(rows) :
        AllZero(MemoryConstraints(rows[r], rows[NextRowIndex(rows, r)], IsTransition(rows, r)))

----------------------------------------------------------------------------
(* Poseidon2 chip *)

Poseidon2NumColumns == 3 + POSEIDON2_WIDTH * 2

\* one row of vec![F::ZERO; trace_len * NUM_COLUMNS], viewed as Poseidon2Columns
Poseidon2ZeroRow ==
    [cycle |-> 0, round |-> 0, is_full_round |-> 0,
     state |-> [k \in 1..POSEIDON2_WIDTH |-> 0],
     state_after_sbox |-> [k \in 1..POSEIDON2_WIDTH |-> 0]]

\* Poseidon2Calls without the filter on the code: every record counts
Poseidon2CallsUnfiltered(records) == records

\* syscalls.iter().filter(|s| s.code == SyscallCode::Poseidon2 as u32)
Poseidon2Calls(records) == SelectSeq(records, LAMBDA s : s.code = SYSCALL_POSEIDON2)

GeneratePoseidon2TraceRows(records) ==
    LET num_rounds == POSEIDON2_FULL_ROUNDS + POSEIDON2_PARTIAL_ROUNDS
        rows_per_call == num_rounds
        total_rows == Len(Poseidon2Calls(records)) * rows_per_call
        trace_len == TraceLen(total_rows)
    IN  [r \in 1..trace_len |-> Poseidon2ZeroRow]

----------------------------------------------------------------------------
(* SHA256 chip *)

\* the fields of Sha256Columns, in declaration order
Sha256ColumnOrder ==
    << "cycle", "block_idx", "round",
       "a", "b", "c", "d", "e", "f", "g", "h",
       "w", "k",
       "ch", "maj", "sigma0", "sigma1", "temp1", "temp2" >>

\* one row of vec![F::ZERO; trace_len * NUM_COLUMNS]: NUM_COLUMNS flat cells
\* (the generator never views a row as Sha256Columns)
Sha256ZeroRow == [k \in 1..SHA256_NUM_COLUMNS |-> 0]

\* syscalls.iter().filter(|s| s.code == SyscallCode::Sha256 as u32)
Sha256Calls(records) == SelectSeq(records, LAMBDA s : s.code = SYSCALL_SHA256)

GenerateSha256TraceRows(records) ==
    LET rows_per_block == SHA256_ROUNDS
        total_rows == Len(Sha256Calls(records)) * rows_per_block
        trace_len == TraceLen(total_rows)
    IN  [r \in 1..trace_len |-> Sha256ZeroRow]

----------------------------------------------------------------------------
(* Widths *)

\* BaseAir::width of the chip whose generator has run
ChipWidth(c) ==
    CASE c = "cpu" -> CPU_NUM_COLUMNS
      [] c = "memory" -> MEMORY_NUM_COLUMNS
      [] c = "poseidon2" -> Poseidon2NumColumns
      [] c = "sha256" -> SHA256_NUM_COLUMNS

\* number of cells of type T the chip's column struct declares
NamedCells(c) ==
    CASE c = "cpu" -> Len(CpuColumnOrder)
      [] c = "memory" -> Len(MemoryColumnOrder)
      [] c = "poseidon2" ->
            3 + Len(Poseidon2ZeroRow.state) + Len(Poseidon2ZeroRow.state_after_sbox)
      [] c = "sha256" -> Len(Sha256ColumnOrder)

----------------------------------------------------------------------------
(* Execution trace: the records a run of the VM appends *)

\* the opcodes a step may carry: the thirteen named ones and one the
\* generator does not recognise
UnknownOpcode == 0
Opcodes ==
    { OP_ALU, OP_ALU_IMM, OP_LOAD, OP_JALR, OP_STORE, OP_BRANCH, OP_LUI, OP_AUIPC,
      OP_JAL, OP_SYSTEM, OP_ZK_CUSTOM, OP_ZK_IO, OP_HALT, UnknownOpcode }

\* cycle of the first step; every later step takes one cycle more
FirstCycles == {0, 1}

\* register indices and immediates of the steps (rd = 1, rs1 = 2, rs2 = 3)
StepRd == 1
StepRs1 == 2
StepRs2 == 3
ImmOf(opcode) ==
    IF opcode = OP_BRANCH THEN 8
    ELSE IF opcode = OP_JAL THEN -4
    ELSE IF opcode = OP_JALR THEN 4
    ELSE IF opcode \in {OP_LOAD, OP_STORE} THEN -4
    ELSE IF opcode = OP_ALU_IMM THEN -1
    ELSE 0

\* register file after the step: r0 = 0, r[i] = 8 i, and a jump leaves the
\* return address pc + 4 in rd
BaseRegisters == [r \in 0..(NUM_REGISTERS - 1) |-> U32(8 * r)]
RegistersAfter(pc, opcode) ==
    IF opcode \in {OP_JAL, OP_JALR}
    THEN [BaseRegisters EXCEPT ![StepRd] = WrappingAdd(pc, U32(4))]
    ELSE BaseRegisters

\* Step
StepRecord(pc, cycle, opcode) ==
    [pc |-> pc, cycle |-> cycle, opcode |-> opcode,
     rd |-> StepRd, rs1 |-> StepRs1, rs2 |-> StepRs2,
     imm |-> ImmOf(opcode), funct |-> 0,
     registers |-> RegistersAfter(pc, opcode)]

\* where execution may continue after a step: a branch falls through or is
\* taken, JAL goes to pc + imm, JALR to rs1 + imm, everything else to pc + 4
\* (32-bit wrapping: JAL at pc = 0 with imm = -4 continues at 0xFFFFFFFC)
SuccessorPcs(step) ==
    IF step.opcode = OP_BRANCH
    THEN {WrappingAdd(step.pc, U32(4)), WrappingAdd(step.pc, I32AsU32(step.imm))}
    ELSE IF step.opcode = OP_JAL
    THEN {WrappingAdd(step.pc, I32AsU32(step.imm))}
    ELSE IF step.opcode = OP_JALR
    THEN {WrappingAdd(step.registers[step.rs1], I32AsU32(step.imm))}
    ELSE {WrappingAdd(step.pc, U32(4))}

\* MemoryAccess
Addresses == {U32(2), U32(4)}
AccessCycles == {1, 3}
Values == {U32(5), U32(9)}
MemoryAccesses ==
    [address : Addresses, cycle : AccessCycles, value : Values, is_write : BOOLEAN]

\* SyscallRecord
SyscallCodes == {SYSCALL_POSEIDON2, SYSCALL_KECCAK256, SYSCALL_SHA256}
SyscallRecords == [code : SyscallCodes, cycle : {0}, inputs : {<<>>}, outputs : {<<>>}]

\* where and when the next step of the run executes
NextPcs == IF steps = <<>> THEN {U32(0)} ELSE SuccessorPcs(steps[Len(steps)])
NextCycles == IF steps = <<>> THEN FirstCycles ELSE {steps[Len(steps)].cycle + 1}

\* ExecutionTrace::new
Init ==
    /\ steps = <<>>
    /\ memory_log = <<>>
    /\ syscalls = <<>>
    /\ chip = "none"
    /\ sorted = <<>>
    /\ matrix = <<>>
    /\ candidate = <<>>
    /\ verdict = "none"

\* A behaviour fills one of the three vectors of the trace and runs the
\* generator that reads it: each generator reads its own vector only
\* (trace.steps, trace.sorted_memory_log(), the syscalls slice).

\* one instruction is executed and its step appended; execution starts at
\* pc = 0.  trace.steps is a public vector: nothing keeps a producer from
\* appending steps behind a HALT step.
PushStep(pc, cycle, opcode) ==
    /\ chip = "none" /\ candidate = <<>>
    /\ memory_log = <<>> /\ syscalls = <<>>
    /\ Len(steps) < MaxSteps
    /\ pc \in NextPcs
    /\ cycle \in NextCycles
    /\ steps' = Append(steps, StepRecord(pc, cycle, opcode))
    /\ UNCHANGED <<memory_log, syscalls, chip, sorted, matrix, candidate, verdict>>

PushAccess(access) ==
    /\ chip = "none" /\ candidate = <<>>
    /\ steps = <<>> /\ syscalls = <<>>
    /\ Len(memory_log) < MaxAccesses
    /\ memory_log' = Append(memory_log, access)
    /\ UNCHANGED <<steps, syscalls, chip, sorted, matrix, candidate, verdict>>

PushSyscall(record) ==
    /\ chip = "none" /\ candidate = <<>>
    /\ steps = <<>> /\ memory_log = <<>>
    /\ Len(syscalls) < MaxSyscalls
    /\ syscalls' = Append(syscalls, record)
    /\ UNCHANGED <<steps, memory_log, chip, sorted, matrix, candidate, verdict>>

\* generate_cpu_trace(trace)
GenerateCpuTrace ==
    /\ chip = "none" /\ candidate = <<>>
    /\ memory_log = <<>> /\ syscalls = <<>>
    /\ chip' = "cpu"
    /\ matrix' = GenerateCpuTraceRows(steps)
    /\ UNCHANGED <<steps, memory_log, syscalls, sorted, candidate, verdict>>

\* MemoryChip::generate_trace(trace)
MemoryGenerateTrace ==
    /\ chip = "none" /\ candidate = <<>>
    /\ steps = <<>> /\ syscalls = <<>>
    /\ chip' = "memory"
    /\ sorted' = SortedMemoryLog(memory_log)
    /\ matrix' = GenerateMemoryTraceRows(sorted')
    /\ UNCHANGED <<steps, memory_log, syscalls, candidate, verdict>>

\* Poseidon2Chip::generate_trace(&trace.syscalls)
Poseidon2GenerateTrace ==
    /\ chip = "none" /\ candidate = <<>>
    /\ steps = <<>> /\ memory_log = <<>>
    /\ chip' = "poseidon2"
    /\ matrix' = GeneratePoseidon2TraceRows(syscalls)
    /\ UNCHANGED <<steps, memory_log, syscalls, sorted, candidate, verdict>>

\* Sha256Chip::generate_trace(&trace.syscalls)
Sha256GenerateTrace ==
    /\ chip = "none" /\ candidate = <<>>
    /\ steps = <<>> /\ memory_log = <<>>
    /\ chip' = "sha256"
    /\ matrix' = GenerateSha256TraceRows(syscalls)
    /\ UNCHANGED <<steps, memory_log, syscalls, sorted, candidate, verdict>>

\* one more instruction of the run
ExecuteStep ==
    \E opcode \in Opcodes, pc \in NextPcs, cycle \in NextCycles :
        PushStep(pc, cycle, opcode)

Next ==
    \/ ExecuteStep
    \/ \E access \in MemoryAccesses : PushAccess(access)
    \/ \E record \in SyscallRecords : PushSyscall(record)
    \/ GenerateCpuTrace
    \/ MemoryGenerateTrace
    \/ Poseidon2GenerateTrace
    \/ Sha256GenerateTrace

Spec == Init /\ [][Next]_vars

----------------------------------------------------------------------------
(* The memory evaluator on matrices of the prover's choosing *)

\* cells a prover may write into a row of a memory matrix; the helper cell
\* cycle_diff_inv is 0, 1 (the inverse of 3 - 1 - 1) or p - 1 (the inverse
\* of -1)
CandidateInverses == {0, 1, BABY_BEAR_PRIME - 1}
CandidateRows ==
    [address : {FromCanonicalU32(a) : a \in Addresses},
     cycle : {1, 3},
     value : {FromCanonicalU32(v) : v \in Values},
     is_write : {0, 1},
     same_addr_as_next : {0, 1},
     addr_diff_inv : {0},
     cycle_diff_inv : CandidateInverses]

\* the matrix is a power of two, at least 2, high
IsPowerOfTwo(n) == n >= 1 /\ NextPowerOfTwo(n) = n

ProverWriteRow(row) ==
    /\ verdict = "none"
    /\ chip = "none"
    /\ Len(candidate) < MaxCandidateRows
    /\ candidate' = Append(candidate, row)
    /\ UNCHANGED <<steps, memory_log, syscalls, chip, sorted, matrix, verdict>>

\* MemoryChip::eval on every row of the candidate matrix
MemoryChipEval ==
    /\ verdict = "none"
    /\ Len(candidate) >= 2
    /\ IsPowerOfTwo(Len(candidate))
    /\ verdict' = IF MemoryEvalHolds(candidate) THEN "accept" ELSE "reject"
    /\ UNCHANGED <<steps, memory_log, syscalls, chip, sorted, matrix, candidate>>

NextAir ==
    \/ \E row \in CandidateRows : ProverWriteRow(row)
    \/ MemoryChipEval

SpecAir == Init /\ [][NextAir]_vars

----------------------------------------------------------------------------
(* The one-hot constraints of the CPU evaluator on rows of the prover's *)
(* choosing *)

\* values a prover may write into an opcode flag besides 0
FlagValues == {1, 2, BABY_BEAR_PRIME - 1}

\* the row handed to CpuChip::eval: all zero until the prover writes a flag
CandidateCpuRow == IF candidate = <<>> THEN CpuZeroRow ELSE candidate[1]

NonZeroFlags(row) ==
    {k \in 1..Len(OpcodeFlagNames) : row[OpcodeFlagNames[k]] # 0}

ProverWriteFlag(k, v) ==
    /\ verdict = "none"
    /\ chip = "none"
    /\ CandidateCpuRow[OpcodeFlagNames[k]] = 0
    /\ Cardinality(NonZeroFlags(CandidateCpuRow)) < MaxNonZeroFlags
    /\ candidate' = <<[CandidateCpuRow EXCEPT ![OpcodeFlagNames[k]] = v]>>
    /\ UNCHANGED <<steps, memory_log, syscalls, chip, sorted, matrix, verdict>>

\* the flag-sum and booleanity assertions of CpuChip::eval on the row
CpuChipEvalFlags ==
    /\ verdict = "none"
    /\ verdict' = IF AllZero(CpuFlagConstraints(CandidateCpuRow))
                  THEN "accept" ELSE "reject"
    /\ UNCHANGED <<steps, memory_log, syscalls, chip, sorted, matrix, candidate>>

NextCpuAir ==
    \/ \E k \in 1..Len(OpcodeFlagNames), v \in FlagValues : ProverWriteFlag(k, v)
    \/ CpuChipEvalFlags

SpecCpuAir == Init /\ [][NextCpuAir]_vars

----------------------------------------------------------------------------
(* Properties *)

\* v * (1 - v) = 0 in the field
IsBoolean(v) == FMul(v, FSub(1, v)) = 0

\* h is a power of two
IsPow2(h) == \E k \in 0..12 : 2 ^ k = h

\* h = max(2, smallest power of two >= n)
HeightFor(h, n) ==
    /\ IsPow2(h)
    /\ h >= 2
    /\ h >= n
    /\ h > 2 => h \div 2 < n

\* number of entries of seq equal to x
Count(seq, x) == Cardinality({k \in 1..Len(seq) : seq[k] = x})

\* a <= b in (address, cycle) lexicographic order
LexLeq(a, b) ==
    \/ a.address[1] < b.address[1]
    \/ a.address[1] = b.address[1] /\ a.address[2] < b.address[2]
    \/ a.address = b.address /\ a.cycle <= b.cycle

\* no two entries of the log share address and cycle
DistinctCyclesPerAddress(log) ==
    \A i, j \in 1..Len(log) :
        (i # j /\ log[i].address = log[j].address) => log[i].cycle # log[j].cycle

\* every read is preceded, in cycle order, by a write to its address, and
\* carries the value of the latest such write
ReadWriteConsistent(log) ==
    \A i \in 1..Len(log) :
        ~log[i].is_write =>
            LET writes == {j \in 1..Len(log) :
                              /\ log[j].is_write
                              /\ log[j].address = log[i].address
                              /\ log[j].cycle < log[i].cycle}
            IN  /\ writes # {}
                /\ \A j \in writes :
                       (\A k \in writes : log[k].cycle <= log[j].cycle)
                           => log[i].value = log[j].value

\* C1: the matrix generate_cpu_trace produces from a well-formed trace
\* satisfies every constraint CpuChip::eval asserts, on every row and on every
\* adjacent row pair.
C1_CpuTraceSatisfiesEval == chip = "cpu" => CpuEvalHolds(matrix)

\* C2: the matrix MemoryChip::generate_trace produces from a read/write
\* consistent log with distinct cycles per address satisfies every constraint
\* MemoryChip::eval asserts (the cycle_diff_inv cell makes the cycle
\* constraint hold wherever same_addr_as_next = 1).
C2_MemoryTraceSatisfiesEval ==
    (chip = "memory" /\ ReadWriteConsistent(memory_log)
                     /\ DistinctCyclesPerAddress(memory_log))
        => MemoryEvalHolds(matrix)

\* every read row with an earlier write row at its address carries the value
\* of the latest such write
ReadsReturnLatestWrite(rows) ==
    \A r \in 1..Len(rows) :
        rows[r].is_write = 0 =>
            LET writes == {w \in 1..Len(rows) :
                              /\ rows[w].is_write = 1
                              /\ rows[w].address = rows[r].address
                              /\ rows[w].cycle < rows[r].cycle}
            IN  \A w \in writes :
                    (\A k \in writes : rows[k].cycle <= rows[w].cycle)
                        => rows[r].value = rows[w].value

\* C3: in a memory matrix on which all constraints of MemoryChip::eval hold,
\* every read returns the most recent prior write at its address.
C3_AcceptedReadsReturnLatestWrite ==
    verdict = "accept" => ReadsReturnLatestWrite(candidate)

\* the calls a Poseidon2 matrix has rows for
NumPoseidon2Calls ==
    Cardinality({k \in 1..Len(syscalls) : syscalls[k].code = SYSCALL_POSEIDON2})

\* C4: a generated matrix is max(2, next_power_of_two(n)) rows high, n being
\* the number of steps (CPU), of memory accesses (memory), or 22 times the
\* number of Poseidon2 calls (Poseidon2); n = 0 and n = 1 included.
C4_HeightIsPaddedPowerOfTwo ==
    /\ chip = "cpu" => HeightFor(Len(matrix), Len(steps))
    /\ chip = "memory" => HeightFor(Len(matrix), Len(memory_log))
    /\ chip = "poseidon2" => HeightFor(Len(matrix), 22 * NumPoseidon2Calls)

C4_Witness ==
    /\ chip = "cpu"
    /\ Len(steps) = 3
    /\ Len(matrix) = 4

\* the opcode class of C5
ClassOf(opcode) ==
    CASE opcode = OP_ALU -> "is_alu"
      [] opcode = OP_ALU_IMM -> "is_alu_imm"
      [] opcode = OP_BRANCH -> "is_branch"
      [] opcode \in {OP_JAL, OP_JALR} -> "is_jump"
      [] opcode = OP_LOAD -> "is_load"
      [] opcode = OP_STORE -> "is_store"
      [] opcode \in {OP_LUI, OP_AUIPC} -> "is_lui_auipc"
      [] opcode = OP_SYSTEM -> "is_system"
      [] opcode = OP_ZK_CUSTOM -> "is_zk_custom"
      [] opcode = OP_ZK_IO -> "is_zk_io"
      [] opcode = OP_HALT -> "is_halt"
      [] OTHER -> "is_nop"

\* exactly the flag `class` is 1 in the row, the other eleven are 0
OneHot(row, class) ==
    \A k \in 1..Len(OpcodeFlagNames) :
        row[OpcodeFlagNames[k]] = IF OpcodeFlagNames[k] = class THEN 1 ELSE 0

\* C5: in every row of a generated CPU matrix exactly one opcode-class flag
\* is 1: the class of the step's opcode on a step row, is_nop on a padding row.
C5_OpcodeFlagsOneHot ==
    chip = "cpu" =>
        \A r \in 1..Len(matrix) :
            OneHot(matrix[r],
                   IF r <= Len(steps) THEN ClassOf(steps[r].opcode) ELSE "is_nop")

C5_Witness ==
    /\ chip = "cpu"
    /\ Len(steps) = 3
    /\ steps[1].opcode = OP_JALR
    /\ steps[2].opcode = OP_AUIPC
    /\ steps[3].opcode = UnknownOpcode
    /\ matrix[1].is_jump = 1
    /\ matrix[4].is_nop = 1

\* a row that is a halt row (is_halt or is_halted set) or a NOP row
HaltOrNopRow(row) == row.is_halt = 1 \/ row.is_halted = 1 \/ row.is_nop = 1

\* C6: for adjacent rows of a generated CPU matrix that are both neither halt
\* rows nor NOP rows, the second row's pc is the first row's next_pc, taken
\* branches and jumps included.
C6_PcChaining ==
    chip = "cpu" =>
        \A r \in 1..(Len(matrix) - 1) :
            (~HaltOrNopRow(matrix[r]) /\ ~HaltOrNopRow(matrix[r + 1]))
                => matrix[r + 1].pc = matrix[r].next_pc

\* C7: for adjacent rows of a generated CPU matrix whose first row has
\* is_nop = 0, the second row's cycle is the first row's cycle plus one (the
\* last step row and the first padding row included).
C7_CycleIncrements ==
    chip = "cpu" =>
        \A r \in 1..(Len(matrix) - 1) :
            matrix[r].is_nop = 0 => matrix[r + 1].cycle = FAdd(matrix[r].cycle, 1)

\* C8: once a row of a generated CPU matrix has is_halted = 1, every later
\* row, padding rows included, has is_halted = 1.
C8_HaltIsSticky ==
    chip = "cpu" =>
        \A r, q \in 1..Len(matrix) :
            (r < q /\ matrix[r].is_halted = 1) => matrix[q].is_halted = 1

\* C9: every boolean-typed cell of every row of a generated CPU or memory
\* matrix satisfies v * (1 - v) = 0.
C9_BooleanColumns ==
    /\ chip = "cpu" =>
          \A r \in 1..Len(matrix) :
              /\ \A k \in 1..Len(OpcodeFlagNames) : IsBoolean(matrix[r][OpcodeFlagNames[k]])
              /\ IsBoolean(matrix[r].is_halted)
              /\ IsBoolean(matrix[r].branch_taken)
              /\ IsBoolean(matrix[r].mem_is_write)
    /\ chip = "memory" =>
          \A r \in 1..Len(matrix) :
              /\ IsBoolean(matrix[r].is_write)
              /\ IsBoolean(matrix[r].same_addr_as_next)

C9_Witness ==
    /\ chip = "memory"
    /\ Len(memory_log) = 3
    /\ \E r \in 1..Len(matrix) :
          /\ matrix[r].is_write = 1
          /\ matrix[r].same_addr_as_next = 1
          /\ matrix[r].value = 9
    /\ matrix[4] = MemoryZeroRow

\* C10: sorted_memory_log returns a permutation of memory_log that is
\* non-decreasing in (address, cycle) lexicographic order.
C10_SortedPermutation ==
    chip = "memory" =>
        /\ Len(sorted) = Len(memory_log)
        /\ \A k \in 1..(Len(sorted) - 1) : LexLeq(sorted[k], sorted[k + 1])
        /\ \A a \in MemoryAccesses : Count(sorted, a) = Count(memory_log, a)

C10_Witness ==
    /\ chip = "memory"
    /\ Len(memory_log) = 3
    /\ memory_log[1].address = U32(4) /\ memory_log[1].cycle = 3
    /\ memory_log[2].address = U32(4) /\ memory_log[2].cycle = 1
    /\ memory_log[3].address = U32(2)
    /\ sorted = <<memory_log[3], memory_log[2], memory_log[1]>>

\* C11: each chip's width() is the number of named cells of its column
\* schema: 32 for the CPU chip, 7 for the memory chip, 3 + 2 * 16 = 35 for
\* Poseidon2 and 20 for SHA256.
C11_WidthIsNumberOfNamedCells ==
    chip # "none" =>
        /\ ChipWidth(chip) = NamedCells(chip)
        /\ chip = "cpu" => ChipWidth(chip) = 32
        /\ chip = "memory" => ChipWidth(chip) = 7
        /\ chip = "poseidon2" => ChipWidth(chip) = 35
        /\ chip = "sha256" => ChipWidth(chip) = 20 /\ Len(matrix[1]) = 20

\* number of records of the trace that carry the given syscall code
NumCallsWithCode(code) ==
    Cardinality({k \in 1..Len(syscalls) : syscalls[k].code = code})

\* the records of seq that carry the given code, in order
RecordsWithCode(seq, code) == SelectSeq(seq, LAMBDA s : s.code = code)

\* every sequence of at most MaxSyscalls syscall records
SyscallLogs ==
    UNION {[1..n -> SyscallRecords] : n \in 0..MaxSyscalls}

\* C12: a syscall chip's matrix depends only on the records that carry the
\* chip's code: Poseidon2 (code 1) is max(2, next_power_of_two(22 k)) rows
\* high and SHA256 (code 3) max(2, next_power_of_two(64 k)), k being the
\* number of records with the chip's code; a trace that differs only in
\* records of other codes (added, removed, reordered) gives the same matrix.
C12_SyscallChipFiltersByCode ==
    /\ chip = "poseidon2" =>
          /\ HeightFor(Len(matrix), 22 * NumCallsWithCode(1))
          /\ \A other \in SyscallLogs :
                 RecordsWithCode(other, 1) = RecordsWithCode(syscalls, 1)
                     => GeneratePoseidon2TraceRows(other) = matrix
    /\ chip = "sha256" =>
          /\ HeightFor(Len(matrix), 64 * NumCallsWithCode(3))
          /\ \A other \in SyscallLogs :
                 RecordsWithCode(other, 3) = RecordsWithCode(syscalls, 3)
                     => GenerateSha256TraceRows(other) = matrix

C12_Witness ==
    /\ chip = "sha256"
    /\ Len(syscalls) = 2
    /\ syscalls[1].code = SYSCALL_POSEIDON2
    /\ syscalls[2].code = SYSCALL_SHA256
    /\ Len(matrix) = 64

\* the u32 w + 4, wrapping at 2^32
Plus4Wrapped(w) ==
    LET lo == w[2] + 4
    IN  <<(w[1] + (lo \div 65536)) % 65536, lo % 65536>>

C14_AcceptedCyclesIncrease ==
    verdict = "accept" =>
        \A r \in 1..(Len(candidate) - 1) :
            candidate[r].same_addr_as_next = 1
                => candidate[r + 1].cycle > candidate[r].cycle

AlternativeStep == StepRecord(U32(64), 7, OP_STORE)
LowestAccess == [address |-> U32(2), cycle |-> 1, value |-> U32(9), is_write |-> TRUE]
HighestAccess == [address |-> U32(4), cycle |-> 3, value |-> U32(9), is_write |-> TRUE]

\* The trace with every step but those at the indices in `keep` replaced.
\* Two traces of one length that agree at `keep` have the same image, so
\* when a row of every trace equals that row of the trace's image, the row
\* is the same for any two traces that agree at `keep`.
StepsKeeping(keep) ==
    [k \in 1..Len(steps) |-> IF k \in keep THEN steps[k] ELSE AlternativeStep]

\* The same for the sorted log; the replaced records are the least access
\* before row i and the greatest behind it, so that the log stays sorted.
SortedKeeping(i, keep) ==
    [k \in 1..Len(sorted) |->
        IF k \in keep THEN sorted[k]
        ELSE IF k < i THEN LowestAccess ELSE HighestAccess]

\* C16: output row i of a trace generator is a function only of input record
\* i (step i for the CPU chip, the i-th record of the sorted log for the
\* memory chip) and of whether it is the last one: two inputs of equal length
\* that agree on record i give the same row i.
C16_RowDependsOnOwnRecord ==
    /\ chip = "cpu" =>
          \A i \in 1..Len(steps) :
              GenerateCpuTraceRows(StepsKeeping({i}))[i] = matrix[i]
    /\ chip = "memory" =>
          \A i \in 1..Len(sorted) :
              GenerateMemoryTraceRows(SortedKeeping(i, {i}))[i] = matrix[i]

\* C16, amended: row i of the CPU matrix is a function only of step i and
\* of whether it is the last one; row i of the memory matrix is a function
\* only of records i and i + 1 of the sorted log (record i + 1 decides
\* same_addr_as_next) and of whether record i is the last one.
C16_RowDependsOnOwnAndNextRecord ==
    /\ chip = "cpu" =>
          \A i \in 1..Len(steps) :
              GenerateCpuTraceRows(StepsKeeping({i}))[i] = matrix[i]
    /\ chip = "memory" =>
          \A i \in 1..Len(sorted) :
              GenerateMemoryTraceRows(SortedKeeping(i, {i, i + 1}))[i] = matrix[i]

\* three accesses, the first two at one address and none of them one of the
\* replacement records: row 0 has same_addr_as_next = 1 whatever the third
\* record is, row 1 has 0 whatever the first is
C16_Witness ==
    /\ chip = "memory"
    /\ Len(sorted) = 3
    /\ sorted[1].address = U32(2) /\ ~sorted[1].is_write
    /\ sorted[2].address = U32(2) /\ ~sorted[2].is_write
    /\ sorted[3].address = U32(4) /\ ~sorted[3].is_write
    /\ GenerateMemoryTraceRows(SortedKeeping(1, {1, 2})) # matrix
    /\ matrix[1].same_addr_as_next = 1
    /\ matrix[2].same_addr_as_next = 0

\* C17: in a generated memory matrix, for every adjacent row pair (padding
\* rows included), same_addr_as_next = 1 on the first row implies equal
\* addresses and same_addr_as_next = 0 implies that the next row's address
\* is strictly greater.
C17_SameAddrFlagMatchesAddresses ==
    chip = "memory" =>
        \A r \in 1..(Len(matrix) - 1) :
            /\ matrix[r].same_addr_as_next = 1
                  => matrix[r + 1].address = matrix[r].address
            /\ matrix[r].same_addr_as_next = 0
                  => matrix[r + 1].address > matrix[r].address

\* a scoped assertion when(sel).assert_zero(x) is the assertion x = 0 or no
\* assertion at all
FullyEnforcedOrDisabled(sel) ==
    \A x \in {0, 1, 5, BABY_BEAR_PRIME - 1} : When(sel, x) \in {0, x}

\* C18: on a row that satisfies the twelve flag booleanity constraints and
\* the flag-sum = 1 constraint of CpuChip::eval, exactly one flag is 1 and
\* the others are 0, so the compound selectors of eval (is_sequential, the
\* sum of seven flags, and 1 - is_halt - is_nop) are 0 or 1 and every
\* assertion they scope is fully enforced or fully disabled.
C18_OneHotSelectors ==
    verdict = "accept" =>
        /\ \E k \in 1..Len(OpcodeFlagNames) :
               OneHot(CandidateCpuRow, OpcodeFlagNames[k])
        /\ IsSequential(CandidateCpuRow) \in {0, 1}
        /\ NotHaltedOrNop(CandidateCpuRow) \in {0, 1}
        /\ FullyEnforcedOrDisabled(IsSequential(CandidateCpuRow))
        /\ FullyEnforcedOrDisabled(NotHaltedOrNop(CandidateCpuRow))

\* an accepted row with is_store alone set: is_sequential = 1 and
\* 1 - is_halt - is_nop = 1
C18_Witness ==
    /\ verdict = "accept"
    /\ candidate # <<>>
    /\ candidate[1].is_store = 1
    /\ IsSequential(candidate[1]) = 1
    /\ NotHaltedOrNop(candidate[1]) = 1

\* the field element congruent to the integer x, for -2^31 <= x < 2^31
SignedToField(x) ==
    IF x >= 0 THEN x % BABY_BEAR_PRIME
    ELSE (BABY_BEAR_PRIME - ((-x) % BABY_BEAR_PRIME)) % BABY_BEAR_PRIME

\* C19: on every step row of a generated CPU matrix, negative immediates
\* included, the imm cell is the field element congruent to the step's
\* signed immediate modulo p, so that the field expression pc + imm of the
\* branch constraint is the field image of the integer pc + imm.
C19_ImmIsSignedImmediate ==
    chip = "cpu" =>
        \A r \in 1..Len(steps) :
            /\ matrix[r].imm = SignedToField(steps[r].imm)
            /\ FAdd(matrix[r].pc, matrix[r].imm)
                  = FAdd(FromCanonicalU32(steps[r].pc), SignedToField(steps[r].imm))

====
